---- MODULE Spec2Model ----
(***************************************************************************)
(* Model of main.py: the FastAPI backend with GET /, POST /summarize and   *)
(* POST /key-points.  Each POST handler checks the API key, awaits one     *)
(* call to the generative model, cuts the text between the first '{' and   *)
(* the last '}', parses it with json.loads and validates the two language  *)
(* fields.                                                                 *)
(*                                                                         *)
(* A text is a sequence of lexical units.  A unit is one structural        *)
(* character ('{', '}', '[', ']', ':', ',', '"', a blank) or a run of      *)
(* characters none of which is a brace: a complete string literal such as  *)
(* "summary_es", the number 1, null, or a prose word.  str.find('{') and   *)
(* str.rfind('}') therefore land on unit boundaries.                       *)
(***************************************************************************)
EXTENDS Integers, Sequences, FiniteSets, TLC

VARIABLES GEMINI_API_KEY, pc, request, prompts, outcome, cleaned_json_text, response

vars == <<GEMINI_API_KEY, pc, request, prompts, outcome, cleaned_json_text, response>>

-----------------------------------------------------------------------------
(* Bounds of the model *)

\* concurrent requests in flight
NumReqs == 2
\* length of the exhaustively enumerated upstream texts
MaxLen == 4
\* fields per generated upstream object
MaxFields == 3

-----------------------------------------------------------------------------
(* Lexical units *)

LBRACE == "{"
RBRACE == "}"
QUOTE  == "\""
BLANK  == " "
WORD   == "w"

\* complete string literals, quotes included
StrLits == {"\"summary_es\"", "\"summary_en\"", "\"key_points_es\"",
            "\"key_points_en\"", "\"a\"", "\"b\""}

\* the characters between the quotes of a complete string literal
LitContent(u) ==
    CASE u = "\"summary_es\""    -> <<"summary_es">>
      [] u = "\"summary_en\""    -> <<"summary_en">>
      [] u = "\"key_points_es\"" -> <<"key_points_es">>
      [] u = "\"key_points_en\"" -> <<"key_points_en">>
      [] u = "\"a\""             -> <<"a">>
      [] u = "\"b\""             -> <<"b">>

-----------------------------------------------------------------------------
(* Python values produced by json.loads.  Every value is a record of the   *)
(* same shape so that any two values can be compared.                      *)

PyStr(c)          == [t |-> "str",  s |-> c,       keys |-> <<>>, items |-> <<>>]
PyInt             == [t |-> "int",  s |-> <<"1">>, keys |-> <<>>, items |-> <<>>]
PyNone            == [t |-> "None", s |-> <<>>,    keys |-> <<>>, items |-> <<>>]
PyList(items)     == [t |-> "list", s |-> <<>>,    keys |-> <<>>, items |-> items]
PyDict(ks, items) == [t |-> "dict", s |-> <<>>,    keys |-> ks,   items |-> items]

\* key in d
HasKey(d, k) == \E i \in 1..Len(d.keys) : d.keys[i] = k

\* d.get(k): the value under k, None when absent
DictGet(d, k) ==
    IF HasKey(d, k)
    THEN d.items[CHOOSE i \in 1..Len(d.keys) : d.keys[i] = k]
    ELSE PyNone

\* d[k] = v on a dict under construction: a repeated key keeps its place and
\* takes the later value
DictPut(ks, items, k, v) ==
    IF \E i \in 1..Len(ks) : ks[i] = k
    THEN [keys  |-> ks,
          items |-> [i \in 1..Len(items) |-> IF ks[i] = k THEN v ELSE items[i]]]
    ELSE [keys |-> Append(ks, k), items |-> Append(items, v)]

-----------------------------------------------------------------------------
(* json.loads: the recursive-descent decoder of the standard library *)

ParseFail == [ok |-> FALSE, pos |-> 0, val |-> PyNone]
ParseOk(v, p) == [ok |-> TRUE, pos |-> p, val |-> v]

\* index of the first unit at or after i that is not whitespace
RECURSIVE SkipWs(_, _)
SkipWs(s, i) ==
    IF i <= Len(s) /\ s[i] = BLANK THEN SkipWs(s, i + 1) ELSE i

\* index of the unit holding the next '"' at or after i, 0 when there is none
RECURSIVE NextQuote(_, _)
NextQuote(s, i) ==
    IF i > Len(s) THEN 0
    ELSE IF s[i] = QUOTE \/ s[i] \in StrLits THEN i
    ELSE NextQuote(s, i + 1)

IsStringStart(s, i) == i <= Len(s) /\ (s[i] = QUOTE \/ s[i] \in StrLits)

\* scanstring: s[i] begins with '"'
ScanString(s, i) ==
    IF s[i] \in StrLits THEN ParseOk(PyStr(LitContent(s[i])), i + 1)
    ELSE LET j == NextQuote(s, i + 1) IN
         IF j = 0 THEN ParseFail                 \* unterminated string
         ELSE IF s[j] \in StrLits THEN ParseFail \* the string closes on the
                                                 \* literal's first quote and a
                                                 \* bare letter follows it
         ELSE ParseOk(PyStr(SubSeq(s, i + 1, j - 1)), j + 1)

RECURSIVE ScanOnce(_, _), JSONObjectMembers(_, _, _, _), JSONArrayItems(_, _, _)

\* scan_once: one JSON value starting at i
ScanOnce(s, i) ==
    IF i > Len(s) THEN ParseFail
    ELSE IF IsStringStart(s, i) THEN ScanString(s, i)
    ELSE IF s[i] = LBRACE THEN
        LET j == SkipWs(s, i + 1) IN
        IF j > Len(s) THEN ParseFail
        ELSE IF s[j] = RBRACE THEN ParseOk(PyDict(<<>>, <<>>), j + 1)
        ELSE IF IsStringStart(s, j) THEN JSONObjectMembers(s, j, <<>>, <<>>)
        ELSE ParseFail
    ELSE IF s[i] = "[" THEN
        LET j == SkipWs(s, i + 1) IN
        IF j <= Len(s) /\ s[j] = "]" THEN ParseOk(PyList(<<>>), j + 1)
        ELSE JSONArrayItems(s, j, <<>>)
    ELSE IF s[i] = "null" THEN ParseOk(PyNone, i + 1)
    ELSE IF s[i] = "1" THEN ParseOk(PyInt, i + 1)
    ELSE ParseFail

\* the members of an object: s[j] begins a key
JSONObjectMembers(s, j, ks, items) ==
    LET key == ScanString(s, j) IN
    IF ~key.ok THEN ParseFail
    ELSE LET c == SkipWs(s, key.pos) IN
    IF c > Len(s) \/ s[c] # ":" THEN ParseFail
    ELSE LET v == ScanOnce(s, SkipWs(s, c + 1)) IN
    IF ~v.ok THEN ParseFail
    ELSE LET m == SkipWs(s, v.pos)
             d == DictPut(ks, items, key.val.s, v.val) IN
    IF m > Len(s) THEN ParseFail
    ELSE IF s[m] = RBRACE THEN ParseOk(PyDict(d.keys, d.items), m + 1)
    ELSE IF s[m] # "," THEN ParseFail
    ELSE LET n == SkipWs(s, m + 1) IN
    IF IsStringStart(s, n) THEN JSONObjectMembers(s, n, d.keys, d.items)
    ELSE ParseFail

\* the items of a non-empty array: a value is expected at j
JSONArrayItems(s, j, acc) ==
    LET v == ScanOnce(s, j) IN
    IF ~v.ok THEN ParseFail
    ELSE LET m == SkipWs(s, v.pos) IN
    IF m > Len(s) THEN ParseFail
    ELSE IF s[m] = "]" THEN ParseOk(PyList(Append(acc, v.val)), m + 1)
    ELSE IF s[m] # "," THEN ParseFail
    ELSE JSONArrayItems(s, SkipWs(s, m + 1), Append(acc, v.val))

\* json.loads(s): one value, then nothing but whitespace; ok = FALSE stands
\* for json.JSONDecodeError
JsonLoads(s) ==
    LET r == ScanOnce(s, SkipWs(s, 1)) IN
    IF ~r.ok THEN ParseFail
    ELSE IF SkipWs(s, r.pos) # Len(s) + 1 THEN ParseFail  \* extra data
    ELSE r

-----------------------------------------------------------------------------
(* str.find, str.rfind and slicing, with Python's 0-based indices *)

\* s.find(u): index of the first occurrence, -1 when there is none
RECURSIVE FindFrom(_, _, _)
FindFrom(s, u, i) ==
    IF i >= Len(s) THEN -1
    ELSE IF s[i + 1] = u THEN i
    ELSE FindFrom(s, u, i + 1)

PyFind(s, u) == FindFrom(s, u, 0)

\* s.rfind(u): index of the last occurrence, -1 when there is none
RECURSIVE RFindFrom(_, _, _)
RFindFrom(s, u, i) ==
    IF i < 0 THEN -1
    ELSE IF s[i + 1] = u THEN i
    ELSE RFindFrom(s, u, i - 1)

PyRFind(s, u) == RFindFrom(s, u, Len(s) - 1)

\* s[a:b] for 0 <= a, 0 <= b
PySlice(s, a, b) == SubSeq(s, a + 1, b)

-----------------------------------------------------------------------------
(* The detail strings of main.py *)

MSG_NOT_CONFIGURED == "La clave API de Gemini no esta configurada."
MSG_S_NO_JSON      == "La IA no devolvio un formato JSON valido o esperado."
MSG_S_INVALID      == "La IA devolvio un JSON invalido."
MSG_S_MISSING      == "La respuesta de la IA no contiene los resumenes en ambos idiomas."
MSG_S_INTERNAL     == "Error interno del servidor al procesar la solicitud."
MSG_K_NO_JSON      == "La IA no devolvio un formato JSON valido o esperado para los puntos clave."
MSG_K_INVALID      == "La IA devolvio un JSON invalido para puntos clave."
MSG_K_MISSING      == "La respuesta de la IA no contiene los puntos clave en formato de lista en ambos idiomas."
MSG_K_INTERNAL     == "Error interno del servidor al procesar la solicitud de puntos clave."
MSG_ROOT           == "Backend del Asistente Educativo funcionando."

-----------------------------------------------------------------------------
(* What a handler body ends with: a returned value or a raised exception *)

Return(v)     == [exc |-> "none", msg |-> "", value |-> v]
Raise(cls, m) == [exc |-> cls, msg |-> m, value |-> PyNone]

\* the exception classes the awaited call is modelled to raise; the first is
\* ValueError (the class response.text itself raises), the second is not
UpstreamExceptions == {"ValueError", "ServiceUnavailable"}
UpstreamMessages   == {"blocked by safety filter", "quota exceeded"}

IsValueError(cls) == cls = "ValueError"

\* the responses a client can receive
NoResponse == [status |-> 0, detail |-> "", body |-> PyNone]
Response(status, detail, body) == [status |-> status, detail |-> detail, body |-> body]

\* mutant: the ValueError clause answers 422
ExceptClausesUnprocessable(result, generic) ==
    IF result.exc = "none" THEN Response(200, "", result.value)
    ELSE IF IsValueError(result.exc) THEN Response(422, result.msg, PyNone)
    ELSE Response(500, generic, PyNone)

\* except ValueError as ve: HTTPException(400, str(ve))
\* except Exception: HTTPException(500, <generic>)
ExceptClauses(result, generic) ==
    IF result.exc = "none" THEN Response(200, "", result.value)
    ELSE IF IsValueError(result.exc) THEN Response(400, result.msg, PyNone)
    ELSE Response(500, generic, PyNone)

\* mutant: the key check is gone
KeyNeverMissing(key) == FALSE

\* if not GEMINI_API_KEY
KeyMissing(key) == key = ""

\* mutant: the order of the two braces is not compared
BracesFoundUnordered(start_index, end_index) ==
    start_index # -1 /\ end_index # -1

\* start_index != -1 and end_index != -1 and end_index > start_index
BracesFound(start_index, end_index) ==
    start_index # -1 /\ end_index # -1 /\ end_index > start_index

\* mutant: the '}' that closes the first '{', by depth counting
RECURSIVE MatchingClose(_, _, _)
MatchingClose(s, i, depth) ==
    IF i >= Len(s) THEN -1
    ELSE IF s[i + 1] = LBRACE THEN MatchingClose(s, i + 1, depth + 1)
    ELSE IF s[i + 1] = RBRACE
         THEN IF depth <= 1 THEN i ELSE MatchingClose(s, i + 1, depth - 1)
    ELSE MatchingClose(s, i + 1, depth)

EndIndexMatching(text) ==
    IF PyFind(text, LBRACE) = -1 THEN PyRFind(text, RBRACE)
    ELSE MatchingClose(text, PyFind(text, LBRACE), 0)

StartIndex(text) == PyFind(text, LBRACE)
EndIndex(text)   == PyRFind(text, RBRACE)

\* mutant: the slice stops before the last brace
CleanedJsonTextExclusive(text) == PySlice(text, PyFind(text, LBRACE), PyRFind(text, RBRACE))

\* generated_json_text[start_index : end_index + 1]
CleanedJsonText(text) == PySlice(text, StartIndex(text), EndIndex(text) + 1)

\* mutant: "and" for "or"
SummaryFieldsMissingBoth(data) ==
    ~HasKey(data, <<"summary_es">>) /\ ~HasKey(data, <<"summary_en">>)

\* "summary_es" not in summary_data or "summary_en" not in summary_data
SummaryFieldsMissing(data) ==
    ~HasKey(data, <<"summary_es">>) \/ ~HasKey(data, <<"summary_en">>)

\* not isinstance(data.get("key_points_es"), list) or
\* not isinstance(data.get("key_points_en"), list)
KeyPointsFieldsMissing(data) ==
    \/ DictGet(data, <<"key_points_es">>).t # "list"
    \/ DictGet(data, <<"key_points_en">>).t # "list"

\* summarize_text from response.text to return summary_data
SummarizeSanitize(text) ==
    IF ~BracesFound(StartIndex(text), EndIndex(text))
    THEN Raise("ValueError", MSG_S_NO_JSON)
    ELSE LET summary_data == JsonLoads(CleanedJsonText(text)) IN
         IF ~summary_data.ok THEN Raise("ValueError", MSG_S_INVALID)
         ELSE IF SummaryFieldsMissing(summary_data.val)
         THEN Raise("ValueError", MSG_S_MISSING)
         ELSE Return(summary_data.val)

\* get_key_points from response.text to return key_points_data
KeyPointsSanitize(text) ==
    IF ~BracesFound(StartIndex(text), EndIndex(text))
    THEN Raise("ValueError", MSG_K_NO_JSON)
    ELSE LET key_points_data == JsonLoads(CleanedJsonText(text)) IN
         IF ~key_points_data.ok THEN Raise("ValueError", MSG_K_INVALID)
         ELSE IF KeyPointsFieldsMissing(key_points_data.val)
         THEN Raise("ValueError", MSG_K_MISSING)
         ELSE Return(key_points_data.val)

\* the outcome of the awaited call: text, or an exception raised by
\* generate_content_async or by response.text
NoOutcome        == [kind |-> "none",  text |-> <<>>, exc |-> "", msg |-> ""]
TextOutcome(t)   == [kind |-> "text",  text |-> t,    exc |-> "", msg |-> ""]
RaiseOutcome(c, m) == [kind |-> "raise", text |-> <<>>, exc |-> c, msg |-> m]

\* the try body of summarize_text after the await
SummarizeAfterAwait(o) ==
    IF o.kind = "raise" THEN Raise(o.exc, o.msg) ELSE SummarizeSanitize(o.text)

\* the try body of get_key_points after the await
KeyPointsAfterAwait(o) ==
    IF o.kind = "raise" THEN Raise(o.exc, o.msg) ELSE KeyPointsSanitize(o.text)

\* the local cleaned_json_text when the handler ends, <<>> when never assigned
CleanedLocal(o) ==
    IF o.kind = "text" /\ BracesFound(StartIndex(o.text), EndIndex(o.text))
    THEN CleanedJsonText(o.text)
    ELSE <<>>

\* the prompt f-string: the template of the task with request.text embedded
PromptText(task, text) == <<task, text>>

-----------------------------------------------------------------------------
(* The texts the awaited call is modelled to return *)

SeqsUpTo(S, n) == UNION {[1..k -> S] : k \in 0..n}

\* every text of at most MaxLen units over these units
ShortUnits == {LBRACE, RBRACE, WORD, "\"a\"", ":", QUOTE}
ShortTexts == SeqsUpTo(ShortUnits, MaxLen)

LIST_AB == <<"[", "\"a\"", ",", "\"b\"", "]">>
LIST_BA == <<"[", "\"b\"", ",", "\"a\"", "]">>

\* key : value pairs an upstream object is built from
FieldPool ==
    { <<"\"summary_es\"", ":", "\"a\"">>,
      <<"\"summary_en\"", ":", "\"b\"">>,
      <<"\"summary_es\"", ":", "1">>,
      <<"\"key_points_es\"", ":">> \o LIST_AB,
      <<"\"key_points_en\"", ":">> \o LIST_BA,
      <<"\"key_points_es\"", ":", "\"a\"">>,
      <<"\"a\"", ":", "1">> }

RECURSIVE JoinFields(_)
JoinFields(fs) ==
    IF Len(fs) = 0 THEN <<>>
    ELSE IF Len(fs) = 1 THEN fs[1]
    ELSE fs[1] \o <<",">> \o JoinFields(Tail(fs))

ObjectText(fs) == <<LBRACE>> \o JoinFields(fs) \o <<RBRACE>>

\* every object of at most MaxFields fields of the pool, in every order
ObjectTexts == {ObjectText(fs) : fs \in SeqsUpTo(FieldPool, MaxFields)}

\* what the model may put before and after the object
Wraps ==
    { <<<<>>, <<>>>>,
      <<<<WORD>>, <<WORD>>>>,
      <<<<RBRACE, WORD>>, <<>>>>,
      <<<<LBRACE, WORD>>, <<>>>>,
      <<<<>>, <<WORD, LBRACE>>>>,
      <<<<>>, <<RBRACE>>>>,
      <<<<>>, <<WORD, LBRACE, WORD, RBRACE>>>> }

WrappedTexts == {w[1] \o o \o w[2] : w \in Wraps, o \in ObjectTexts}

\* whitespace, braces inside string values, nesting, a trailing comma
EdgeTexts ==
    { <<BLANK, LBRACE, BLANK, "\"summary_es\"", BLANK, ":", BLANK, "\"a\"", BLANK, ",",
        BLANK, "\"summary_en\"", ":", "\"b\"", BLANK, RBRACE, BLANK>>,
      <<LBRACE, "\"summary_es\"", ":", QUOTE, RBRACE, QUOTE, ",",
        "\"summary_en\"", ":", QUOTE, LBRACE, QUOTE, RBRACE>>,
      <<LBRACE, "\"summary_es\"", ":", LBRACE, "\"a\"", ":", "1", RBRACE, ",",
        "\"summary_en\"", ":", "[", "]", RBRACE>>,
      <<LBRACE, "\"summary_es\"", ":", "\"a\"", ",", "\"summary_en\"", ":", "\"b\"", ",",
        RBRACE>>,
      <<LBRACE, "\"key_points_es\"", ":", "[", "1", ",", "]", ",",
        "\"key_points_en\"", ":", "[", "]", RBRACE>>,
      <<LBRACE, "\"key_points_es\"", ":", "[", "[", "\"a\"", "]", "]", ",",
        "\"key_points_en\"", ":", "[", "]", RBRACE>>,
      <<LBRACE, "\"key_points_es\"", ":", LBRACE, RBRACE, ",",
        "\"key_points_en\"", ":", "[", "]", RBRACE>>,
      <<QUOTE, LBRACE, QUOTE, WORD, LBRACE, "\"summary_es\"", ":", "\"a\"", ",",
        "\"summary_en\"", ":", "\"b\"", RBRACE>> }

RawTexts == ShortTexts \cup WrappedTexts \cup EdgeTexts

\* the texts of the concurrent specification
SmallTexts ==
    { <<WORD>>,
      <<LBRACE, WORD, RBRACE>>,
      <<WORD, LBRACE, "\"summary_es\"", ":", "\"a\"", ",", "\"summary_en\"", ":", "\"b\"",
        RBRACE>>,
      <<LBRACE, "\"key_points_es\"", ":">> \o LIST_AB \o
        <<",", "\"key_points_en\"", ":">> \o LIST_BA \o <<RBRACE>> }

-----------------------------------------------------------------------------
(* Requests *)

Reqs == 1..NumReqs

ROOT       == "GET /"
SUMMARIZE  == "POST /summarize"
KEY_POINTS == "POST /key-points"
Endpoints  == {ROOT, SUMMARIZE, KEY_POINTS}

\* request bodies: has_text is FALSE when the JSON body has no string "text"
NoBody == [has_text |-> FALSE, text |-> ""]
Bodies == {NoBody, [has_text |-> TRUE, text |-> ""], [has_text |-> TRUE, text |-> "lesson"]}

NoRequest == [endpoint |-> "", body |-> NoBody]

\* class TextRequest(BaseModel): text: str
TextRequest(body) == body.has_text

\* GET / sends no body
Requests ==
    {[endpoint |-> e, body |-> b] : e \in {SUMMARIZE, KEY_POINTS}, b \in Bodies}
    \cup {[endpoint |-> ROOT, body |-> NoBody]}

\* the generic detail of the handler's except Exception clause
GenericDetail(endpoint) ==
    IF endpoint = SUMMARIZE THEN MSG_S_INTERNAL ELSE MSG_K_INTERNAL

\* mutant: the upstream response is kept in one module-level variable that the
\* latest resumed request overwrites
AwaitedOutcomeShared(r) ==
    IF \E q \in Reqs \ {r} : pc[q] = "resumed"
    THEN outcome[CHOOSE q \in Reqs \ {r} : pc[q] = "resumed"]
    ELSE outcome[r]

\* the outcome the resumed coroutine of request r reads
AwaitedOutcome(r) == outcome[r]

\* mutant: a request answered with an error calls the service again
AtCallOrFailed(r) ==
    \/ pc[r] = "received"
    \/ pc[r] = "done" /\ response[r].status \in {400, 500} /\ prompts[r] # <<>>

\* the straight-line position at which request r issues its one upstream call
AtCall(r) == pc[r] = "received"

-----------------------------------------------------------------------------
(* Actions *)

Init ==
    /\ GEMINI_API_KEY \in {"", "key"}
    /\ pc = [r \in Reqs |-> "idle"]
    /\ request = [r \in Reqs |-> NoRequest]
    /\ prompts = [r \in Reqs |-> <<>>]
    /\ outcome = [r \in Reqs |-> NoOutcome]
    /\ cleaned_json_text = [r \in Reqs |-> <<>>]
    /\ response = [r \in Reqs |-> NoResponse]

\* a client sends a request; the slot of an answered request is reused
Receive(r) ==
    /\ pc[r] \in {"idle", "done"}
    /\ \E q \in Requests : request' = [request EXCEPT ![r] = q]
    /\ pc' = [pc EXCEPT ![r] = "received"]
    /\ prompts' = [prompts EXCEPT ![r] = <<>>]
    /\ outcome' = [outcome EXCEPT ![r] = NoOutcome]
    /\ cleaned_json_text' = [cleaned_json_text EXCEPT ![r] = <<>>]
    /\ response' = [response EXCEPT ![r] = NoResponse]
    /\ UNCHANGED GEMINI_API_KEY

\* read_root
ReadRoot(r) ==
    /\ pc[r] = "received"
    /\ request[r].endpoint = ROOT
    /\ response' = [response EXCEPT ![r] =
           Response(200, "", PyDict(<<<<"message">>>>, <<PyStr(<<MSG_ROOT>>)>>))]
    /\ pc' = [pc EXCEPT ![r] = "done"]
    /\ UNCHANGED <<GEMINI_API_KEY, request, prompts, outcome, cleaned_json_text>>

\* FastAPI validates the body against TextRequest before it calls the handler
\* and answers 422 itself when the body does not fit
RejectBody(r) ==
    /\ pc[r] = "received"
    /\ request[r].endpoint \in {SUMMARIZE, KEY_POINTS}
    /\ ~TextRequest(request[r].body)
    /\ response' = [response EXCEPT ![r] = Response(422, "field required", PyNone)]
    /\ pc' = [pc EXCEPT ![r] = "done"]
    /\ UNCHANGED <<GEMINI_API_KEY, request, prompts, outcome, cleaned_json_text>>

\* a POST handler from its first line to the await
HandlerUntilAwait(r, endpoint, task) ==
    /\ AtCall(r)
    /\ request[r].endpoint = endpoint
    /\ TextRequest(request[r].body)
    /\ IF KeyMissing(GEMINI_API_KEY)
       THEN /\ response' = [response EXCEPT ![r] =
                   ExceptClauses(Raise("ValueError", MSG_NOT_CONFIGURED),
                                 GenericDetail(endpoint))]
            /\ pc' = [pc EXCEPT ![r] = "done"]
            /\ UNCHANGED prompts
       ELSE /\ prompts' = [prompts EXCEPT ![r] =
                   Append(@, PromptText(task, request[r].body.text))]
            /\ pc' = [pc EXCEPT ![r] = "awaiting"]
            /\ response' = [response EXCEPT ![r] = NoResponse]
    /\ UNCHANGED <<GEMINI_API_KEY, request, outcome, cleaned_json_text>>

\* summarize_text up to await model.generate_content_async(...)
SummarizeCall(r) == HandlerUntilAwait(r, SUMMARIZE, "resumir")

\* get_key_points up to await model.generate_content_async(...)
KeyPointsCall(r) == HandlerUntilAwait(r, KEY_POINTS, "puntos clave")

\* the external service answers with text
UpstreamReturns(r, texts) ==
    /\ pc[r] = "awaiting"
    /\ \E t \in texts : outcome' = [outcome EXCEPT ![r] = TextOutcome(t)]
    /\ pc' = [pc EXCEPT ![r] = "resumed"]
    /\ UNCHANGED <<GEMINI_API_KEY, request, prompts, cleaned_json_text, response>>

\* the call, or response.text, raises
UpstreamRaises(r) ==
    /\ pc[r] = "awaiting"
    /\ \E c \in UpstreamExceptions, m \in UpstreamMessages :
           outcome' = [outcome EXCEPT ![r] = RaiseOutcome(c, m)]
    /\ pc' = [pc EXCEPT ![r] = "resumed"]
    /\ UNCHANGED <<GEMINI_API_KEY, request, prompts, cleaned_json_text, response>>

\* summarize_text from response.text to its return or its except clauses
SummarizeFinish(r) ==
    /\ pc[r] = "resumed"
    /\ request[r].endpoint = SUMMARIZE
    /\ response' = [response EXCEPT ![r] =
           ExceptClauses(SummarizeAfterAwait(AwaitedOutcome(r)), MSG_S_INTERNAL)]
    /\ cleaned_json_text' = [cleaned_json_text EXCEPT ![r] = CleanedLocal(AwaitedOutcome(r))]
    /\ pc' = [pc EXCEPT ![r] = "done"]
    /\ UNCHANGED <<GEMINI_API_KEY, request, prompts, outcome>>

\* get_key_points from response.text to its return or its except clauses
KeyPointsFinish(r) ==
    /\ pc[r] = "resumed"
    /\ request[r].endpoint = KEY_POINTS
    /\ response' = [response EXCEPT ![r] =
           ExceptClauses(KeyPointsAfterAwait(AwaitedOutcome(r)), MSG_K_INTERNAL)]
    /\ cleaned_json_text' = [cleaned_json_text EXCEPT ![r] = CleanedLocal(AwaitedOutcome(r))]
    /\ pc' = [pc EXCEPT ![r] = "done"]
    /\ UNCHANGED <<GEMINI_API_KEY, request, prompts, outcome>>

\* concurrent requests, the upstream answering from SmallTexts
Next ==
    \E r \in Reqs :
        \/ Receive(r)
        \/ ReadRoot(r)
        \/ RejectBody(r)
        \/ SummarizeCall(r)
        \/ KeyPointsCall(r)
        \/ UpstreamReturns(r, SmallTexts)
        \/ UpstreamRaises(r)
        \/ SummarizeFinish(r)
        \/ KeyPointsFinish(r)

Spec == Init /\ [][Next]_vars

\* one request at a time, the upstream answering from RawTexts
NextSanitizer ==
    \/ Receive(1)
    \/ ReadRoot(1)
    \/ RejectBody(1)
    \/ SummarizeCall(1)
    \/ KeyPointsCall(1)
    \/ UpstreamReturns(1, RawTexts)
    \/ UpstreamRaises(1)
    \/ SummarizeFinish(1)
    \/ KeyPointsFinish(1)

SpecSanitizer == Init /\ [][NextSanitizer]_vars

-----------------------------------------------------------------------------
(* Vocabulary of the properties *)

Done(r)    == pc[r] = "done"
IsTask(r)  == request[r].endpoint \in {SUMMARIZE, KEY_POINTS}
\* the handler of request r ran to its end
Handled(r) == Done(r) /\ IsTask(r) /\ TextRequest(request[r].body)
\* the handler of request r got text back from the external service
GotText(r) == Handled(r) /\ outcome[r].kind = "text"

Positions(t, u) == {i \in 1..Len(t) : t[i] = u}
BraceFree(t)    == Positions(t, LBRACE) = {} /\ Positions(t, RBRACE) = {}

\* some '{' stands before some '}'
HasBracePair(t) ==
    \E i \in Positions(t, LBRACE), j \in Positions(t, RBRACE) : i < j

FirstOpen(t) ==
    CHOOSE i \in Positions(t, LBRACE) : \A k \in Positions(t, LBRACE) : i <= k
LastClose(t) ==
    CHOOSE j \in Positions(t, RBRACE) : \A k \in Positions(t, RBRACE) : k <= j

\* the text from the first '{' to the last '}'
OutermostSpan(t) == SubSeq(t, FirstOpen(t), LastClose(t))

NoJsonDetail(e)  == IF e = SUMMARIZE THEN MSG_S_NO_JSON ELSE MSG_K_NO_JSON
InvalidDetail(e) == IF e = SUMMARIZE THEN MSG_S_INVALID ELSE MSG_K_INVALID
MissingDetail(e) == IF e = SUMMARIZE THEN MSG_S_MISSING ELSE MSG_K_MISSING

IsStr(d, k)  == HasKey(d, k) /\ DictGet(d, k).t = "str"
IsList(d, k) == HasKey(d, k) /\ DictGet(d, k).t = "list"

\* d is a result object of the endpoint as section 6 of the interface gives it
ResultShape(e, d) ==
    /\ d.t = "dict"
    /\ e = SUMMARIZE  => IsStr(d, <<"summary_es">>) /\ IsStr(d, <<"summary_en">>)
    /\ e = KEY_POINTS => IsList(d, <<"key_points_es">>) /\ IsList(d, <<"key_points_en">>)

\* d holds the fields the endpoint's validation asks for
RequiredFields(e, d) ==
    /\ d.t = "dict"
    /\ e = SUMMARIZE  => HasKey(d, <<"summary_es">>) /\ HasKey(d, <<"summary_en">>)
    /\ e = KEY_POINTS => IsList(d, <<"key_points_es">>) /\ IsList(d, <<"key_points_en">>)

-----------------------------------------------------------------------------
(* C1 *)

\* C1 as claimed: a 200 response carries an object in which both language
\* fields are present and of the endpoint's type (strings on /summarize, lists
\* on /key-points); every other response carries no result object.
C1_Original ==
    \A r \in Reqs : Handled(r) =>
        /\ response[r].status = 200 => ResultShape(request[r].endpoint, response[r].body)
        /\ response[r].status # 200 => response[r].body = PyNone

\* C1 amended: /summarize answers 200 only if summary_es and summary_en are both
\* present in the parsed object, whatever their JSON type; /key-points answers
\* 200 only if key_points_es and key_points_en are both present and lists; in
\* every other case the request fails and carries no result object.
C1_Amended ==
    \A r \in Reqs : Handled(r) =>
        /\ response[r].status = 200 => RequiredFields(request[r].endpoint, response[r].body)
        /\ response[r].status # 200 => response[r].body = PyNone
        /\ GotText(r) /\ response[r].status # 200 =>
               \/ ~HasBracePair(outcome[r].text)
               \/ ~JsonLoads(OutermostSpan(outcome[r].text)).ok
               \/ ~RequiredFields(request[r].endpoint,
                                  JsonLoads(OutermostSpan(outcome[r].text)).val)

\* /summarize answered 200 with a summary_es that is a number
C1_Witness ==
    \E r \in Reqs :
        /\ Handled(r) /\ request[r].endpoint = SUMMARIZE
        /\ response[r].status = 200
        /\ DictGet(response[r].body, <<"summary_es">>).t = "int"

-----------------------------------------------------------------------------
(* C2 *)

\* C2: when the external call raises instead of returning text, the response is
\* 500 with the endpoint's generic detail.
C2_UpstreamFailureIs500 ==
    \A r \in Reqs : Handled(r) /\ outcome[r].kind = "raise" =>
        response[r] = Response(500, GenericDetail(request[r].endpoint), PyNone)

-----------------------------------------------------------------------------
(* C3 *)

\* the class of a failed request, read off the upstream outcome
ErrorClass(r) ==
    IF outcome[r].kind = "none" THEN <<"configuration">>
    ELSE IF outcome[r].kind = "raise" THEN <<"raised", outcome[r].exc>>
    ELSE IF ~HasBracePair(outcome[r].text) THEN <<"no braces">>
    ELSE IF ~JsonLoads(OutermostSpan(outcome[r].text)).ok THEN <<"not JSON">>
    ELSE <<"fields">>

\* C3: two failed requests to the same endpoint in the same error class get the
\* same response body, whatever the upstream text or error message was.
C3_DetailIndependentOfUpstream ==
    \A r1, r2 \in Reqs :
        /\ Handled(r1) /\ Handled(r2)
        /\ request[r1].endpoint = request[r2].endpoint
        /\ response[r1].status \in {400, 500}
        /\ response[r2].status \in {400, 500}
        /\ ErrorClass(r1) = ErrorClass(r2)
        => response[r1] = response[r2]

-----------------------------------------------------------------------------
(* C4 *)

\* C4: when the external call returns text, a text with no '{' before a '}'
\* gives 400 with the no-valid-JSON detail, a brace span that json.loads rejects
\* gives 400 with the invalid-JSON detail, and a parsed object lacking
\* summary_es or summary_en (/summarize), or whose key_points_es or
\* key_points_en is absent or not a list (/key-points), gives 400 with the
\* missing-fields detail.
C4_FormatFailuresAre400 ==
    \A r \in Reqs : GotText(r) =>
        LET e == request[r].endpoint
            t == outcome[r].text
        IN  IF ~HasBracePair(t)
            THEN response[r] = Response(400, NoJsonDetail(e), PyNone)
            ELSE LET parsed == JsonLoads(OutermostSpan(t)) IN
                 /\ ~parsed.ok => response[r] = Response(400, InvalidDetail(e), PyNone)
                 /\ parsed.ok /\ e = SUMMARIZE
                    /\ (~HasKey(parsed.val, <<"summary_es">>)
                        \/ ~HasKey(parsed.val, <<"summary_en">>))
                    => response[r] = Response(400, MSG_S_MISSING, PyNone)
                 /\ parsed.ok /\ e = KEY_POINTS
                    /\ (~IsList(parsed.val, <<"key_points_es">>)
                        \/ ~IsList(parsed.val, <<"key_points_en">>))
                    => response[r] = Response(400, MSG_K_MISSING, PyNone)

\* /key-points got an object whose key_points_es is a string and answered 400
C4_Witness ==
    \E r \in Reqs :
        /\ GotText(r) /\ request[r].endpoint = KEY_POINTS
        /\ HasBracePair(outcome[r].text)
        /\ JsonLoads(OutermostSpan(outcome[r].text)).ok
        /\ IsStr(JsonLoads(OutermostSpan(outcome[r].text)).val, <<"key_points_es">>)
        /\ IsList(JsonLoads(OutermostSpan(outcome[r].text)).val, <<"key_points_en">>)
        /\ response[r].status = 400

-----------------------------------------------------------------------------
(* C5 *)

\* the text splits into brace-free prose, a JSON object that is a result object
\* of the endpoint, and brace-free prose
WrappedResult(e, t, i, j) ==
    /\ i <= j
    /\ t[i] = LBRACE
    /\ BraceFree(SubSeq(t, 1, i - 1))
    /\ BraceFree(SubSeq(t, j + 1, Len(t)))
    /\ JsonLoads(SubSeq(t, i, j)).ok
    /\ ResultShape(e, JsonLoads(SubSeq(t, i, j)).val)

SUMMARY_AB == <<LBRACE, "\"summary_es\"", ":", "\"a\"", ",", "\"summary_en\"", ":", "\"b\"",
                RBRACE>>

\* C5: a valid result object, with brace-free prose before and after it or
\* without, is answered 200 with the object json.loads makes of it: the same
\* keys in the same order with the same values, extra fields included.
C5_PassThrough ==
    \A r \in Reqs : GotText(r) =>
        LET e == request[r].endpoint
            t == outcome[r].text
        IN  /\ \A i, j \in 1..Len(t) : WrappedResult(e, t, i, j) =>
                   response[r] = Response(200, "", JsonLoads(SubSeq(t, i, j)).val)
            /\ e = SUMMARIZE /\ t = <<WORD>> \o SUMMARY_AB \o <<WORD>> =>
                   response[r].body =
                       PyDict(<<<<"summary_es">>, <<"summary_en">>>>,
                              <<PyStr(<<"a">>), PyStr(<<"b">>)>>)

\* /summarize answered 200 to an object with an extra field, wrapped in prose
C5_Witness ==
    \E r \in Reqs :
        /\ GotText(r) /\ request[r].endpoint = SUMMARIZE
        /\ outcome[r].text[1] = WORD
        /\ outcome[r].text[Len(outcome[r].text)] = WORD
        /\ \E i, j \in 1..Len(outcome[r].text) :
               WrappedResult(SUMMARIZE, outcome[r].text, i, j)
        /\ response[r].status = 200
        /\ Len(response[r].body.keys) = 3

-----------------------------------------------------------------------------
(* C6 *)

\* C6: with no API key, every /summarize and /key-points request ends in 400
\* with the not-configured detail, no call to the external service is ever
\* issued, and GET / is still answered 200.
C6_NotConfigured ==
    GEMINI_API_KEY = "" =>
        \A r \in Reqs :
            /\ prompts[r] = <<>>
            /\ pc[r] \notin {"awaiting", "resumed"}
            /\ outcome[r] = NoOutcome
            /\ Handled(r) => response[r] = Response(400, MSG_NOT_CONFIGURED, PyNone)
            /\ Done(r) /\ request[r].endpoint = ROOT => response[r].status = 200

\* one request failed for the missing key and GET / was answered beside it
C6_Witness ==
    /\ GEMINI_API_KEY = ""
    /\ \E r1, r2 \in Reqs :
        /\ Handled(r1) /\ response[r1].status = 400
        /\ Done(r2) /\ request[r2].endpoint = ROOT /\ response[r2].status = 200

-----------------------------------------------------------------------------
(* C7 *)

\* C7 as claimed: every answered request has status 200, 400 or 500, and a
\* request body that fails validation is answered 400.
C7_Original ==
    \A r \in Reqs : Done(r) =>
        /\ response[r].status \in {200, 400, 500}
        /\ IsTask(r) /\ ~TextRequest(request[r].body) => response[r].status = 400

\* C7 amended: every request is answered once; a POST whose body does not fit
\* TextRequest is answered 422 by the framework before the handler runs; every
\* other request is answered 200, 400 or 500, whatever the upstream does.
C7_Amended ==
    \A r \in Reqs :
        /\ Done(r) <=> response[r] # NoResponse
        /\ Done(r) /\ IsTask(r) /\ ~TextRequest(request[r].body) =>
               response[r].status = 422 /\ prompts[r] = <<>>
        /\ Done(r) /\ ~(IsTask(r) /\ ~TextRequest(request[r].body)) =>
               response[r].status \in {200, 400, 500}

\* a POST without a text field was answered 422
C7_Witness ==
    \E r \in Reqs :
        /\ Done(r) /\ IsTask(r) /\ ~TextRequest(request[r].body)
        /\ response[r].status = 422

-----------------------------------------------------------------------------
(* C8 *)

\* the response of a handler that runs with nothing else in the process
RunAlone(e, key, o) ==
    IF key = "" THEN Response(400, MSG_NOT_CONFIGURED, PyNone)
    ELSE IF e = SUMMARIZE THEN ExceptClauses(SummarizeAfterAwait(o), MSG_S_INTERNAL)
    ELSE ExceptClauses(KeyPointsAfterAwait(o), MSG_K_INTERNAL)

\* C8: under every interleaving, a request's response is the one it gets when
\* run alone with the same upstream outcome, and two requests to the same
\* endpoint with the same upstream outcome get the same response.
C8_Independent ==
    /\ \A r \in Reqs : Handled(r) =>
           response[r] = RunAlone(request[r].endpoint, GEMINI_API_KEY, outcome[r])
    /\ \A r1, r2 \in Reqs :
           /\ Handled(r1) /\ Handled(r2)
           /\ request[r1].endpoint = request[r2].endpoint
           /\ outcome[r1] = outcome[r2]
           => response[r1] = response[r2]

\* a request was answered while another to the same endpoint, resumed with a
\* different upstream outcome, had not finished
C8_Witness ==
    \E r1, r2 \in Reqs :
        /\ r1 # r2
        /\ Handled(r1) /\ outcome[r1].kind = "text"
        /\ pc[r2] = "resumed"
        /\ request[r1].endpoint = request[r2].endpoint
        /\ outcome[r2] # outcome[r1]

-----------------------------------------------------------------------------
(* C9 *)

\* C9: a request issues at most one call to the external service, exactly one
\* when the API key is configured; a request answered with an error has issued
\* no second call.
C9_SingleCall ==
    \A r \in Reqs :
        /\ Len(prompts[r]) <= 1
        /\ Handled(r) /\ GEMINI_API_KEY # "" => Len(prompts[r]) = 1
        /\ Handled(r) /\ GEMINI_API_KEY = "" => Len(prompts[r]) = 0
        /\ pc[r] \in {"awaiting", "resumed"} => Len(prompts[r]) = 1
        /\ Len(prompts[r]) = 1 =>
               prompts[r][1][2] = request[r].body.text

\* a request whose upstream output was rejected was answered 400 after one call
C9_Witness ==
    \E r \in Reqs :
        /\ GotText(r) /\ response[r].status = 400
        /\ Len(prompts[r]) = 1

-----------------------------------------------------------------------------
(* C10 *)

\* the text holds a result object of the endpoint from i to j, no '{' before
\* it, and a '}' somewhere after it
ResultThenBrace(e, t, i, j) ==
    /\ i <= j
    /\ t[i] = LBRACE
    /\ Positions(SubSeq(t, 1, i - 1), LBRACE) = {}
    /\ JsonLoads(SubSeq(t, i, j)).ok
    /\ ResultShape(e, JsonLoads(SubSeq(t, i, j)).val)
    /\ Positions(SubSeq(t, j + 1, Len(t)), RBRACE) # {}

\* C10: the text handed to json.loads is the raw text without what stands
\* before its first '{' and after its last '}', nothing between removed; a
\* result object followed by text holding a further '}' is answered 400 with
\* the invalid-JSON detail.
C10_FirstToLastBrace ==
    \A r \in Reqs : GotText(r) =>
        LET e == request[r].endpoint
            t == outcome[r].text
            c == cleaned_json_text[r]
        IN  /\ HasBracePair(t) =>
                \E i, j \in 1..Len(t) :
                    /\ c = SubSeq(t, i, j)
                    /\ t[i] = LBRACE /\ t[j] = RBRACE
                    /\ Positions(SubSeq(t, 1, i - 1), LBRACE) = {}
                    /\ Positions(SubSeq(t, j + 1, Len(t)), RBRACE) = {}
            /\ ~HasBracePair(t) => c = <<>>
            /\ \A i, j \in 1..Len(t) : ResultThenBrace(e, t, i, j) =>
                   response[r] = Response(400, InvalidDetail(e), PyNone)

\* a result object followed by "w { w }" was answered 400
C10_Witness ==
    \E r \in Reqs :
        /\ GotText(r)
        /\ \E i, j \in 1..Len(outcome[r].text) :
               /\ ResultThenBrace(request[r].endpoint, outcome[r].text, i, j)
               /\ SubSeq(outcome[r].text, j + 1, Len(outcome[r].text))
                      = <<WORD, LBRACE, WORD, RBRACE>>
        /\ cleaned_json_text[r] = outcome[r].text
        /\ response[r].status = 400

=============================================================================
